---- MODULE Spec2Model ----
(***************************************************************************)
(* Model of sygnal/models/sender.py: the Sender module's constructor       *)
(* (configuration validation) and its forward pass (the fixed-length       *)
(* decoding loop, the four token-discretization paths, the sequence-length *)
(* tracker and the auxiliary buffers returned to the caller).              *)
(*                                                                         *)
(* Abstractions of the numeric part.  The recurrent cell and the output    *)
(* projector are opaque: what they produce at a step for one batch element *)
(* is a distribution over the categories, represented by its class         *)
(*     [top |-> arg-max category, sharp |-> it is a point mass].           *)
(* A token representation is represented by                                *)
(*     [idx |-> arg-max coordinate, exact |-> its maximum is exactly 1.0], *)
(* which is all that torch.max(token, dim=1) reads from it.  Real numbers  *)
(* are integers in a fixed unit (see Entropy, LogProb, SqDist, P).         *)
(* torch.empty returns a block with arbitrary content: the content of the  *)
(* cells never assigned is chosen nondeterministically from MemVals when   *)
(* the block is read (nothing reads it earlier).                           *)
(***************************************************************************)
EXTENDS Integers, Sequences, FiniteSets, TLC

\* ---- bounds of the model ----
MaxSteps == 2
MaxCalls == 2

\* leading dimensions of the hidden_state tensors passed to forward
BatchSizes == {1, 2}

\* sizes the constructor arguments vocab_size, discrete_latent_number,
\* discrete_latent_dimension, input_size and hidden_size are drawn from
Sizes == {1, 2}
\* what a block of uninitialised memory may hold (per allocation)
MemVals == {0, 1}

\* beta = 0.25 (default of the constructor), as the fraction BetaNum / BetaDen
BetaNum == 1
BetaDen == 4

\* ---- constructor arguments ----
EosArgs(V) == {[none |-> TRUE, id |-> 0]} \cup {[none |-> FALSE, id |-> v] : v \in 1..(V - 1)}

SenderArgs ==
    { a \in [ vocab_size : Sizes, output_len : 1..MaxSteps, sos_id : {0},
              eos_id : EosArgs(2), input_size : Sizes, hidden_size : {2},
              greedy : BOOLEAN, cell_type : {"lstm", "gru"},
              vqvae : BOOLEAN, discrete_latent_number : Sizes,
              discrete_latent_dimension : Sizes, discrete_communication : BOOLEAN,
              gumbel_softmax : BOOLEAN, rl : BOOLEAN, training : BOOLEAN ] :
        /\ a.eos_id \in EosArgs(a.vocab_size)
        \* the flags are varied where the code reads them
        /\ a.gumbel_softmax => (a.vqvae /\ a.discrete_communication /\ ~a.rl)
        /\ a.greedy => ~a.training }

\* hidden_state argument of forward: None, or a tensor [batch, input_size]
HiddenStates == {[none |-> TRUE, batch |-> 1]} \cup {[none |-> FALSE, batch |-> n] : n \in BatchSizes}

VARIABLES
    pc,                   \* "new", "ready", "loop", "returned", "inspected", "raised"
    err,                  \* the exception raised, "" if none
    args,                 \* the constructor arguments = the fields of self (and self.training)
    input,                \* the hidden_state argument of the current forward call
    calls,                \* number of forward calls started
    batch_size,
    i,                    \* number of completed loop iterations
    output,               \* list of token batches
    seq_lengths,
    embeds,
    sentence_probability,
    losses_2_3,
    entropy,
    message_logits,
    net,                  \* what the network computed at each step of the first call,
                          \* kept in the modes that draw no sample
    result,               \* the tuple returned by the last completed call
    observed,             \* the values the caller read from it
    prev                  \* the values the caller read from the call before

vars == <<pc, err, args, input, calls, batch_size, i, output, seq_lengths, embeds,
          sentence_probability, losses_2_3, entropy, message_logits, net, result,
          observed, prev>>

locals == <<batch_size, i, output, seq_lengths, embeds, sentence_probability,
            losses_2_3, entropy, message_logits>>

\* ---- Sender.__init__ ----

\* lines 42-51: the size vocab_size is asserted to equal
\* (faulty variant: the mode is not consulted)
ExpectedVocabSizeMutant(a) == a.discrete_latent_number
ExpectedVocabSize(a) ==
    IF a.vqvae /\ ~a.rl /\ ~a.discrete_communication
    THEN a.discrete_latent_dimension
    ELSE a.discrete_latent_number

\* lines 59-62
eos_id(a) == IF a.eos_id.none THEN a.sos_id ELSE a.eos_id.id

\* lines 94-96: input_module is nn.Linear unless the sizes agree (then nn.Identity)
InputModuleIsLinear(a) == a.input_size # a.hidden_size

NoResult ==
    [messages |-> << >>, seq_lengths |-> << >>, entropy |-> << >>, embeds |-> << >>,
     sentence_probability |-> << >>, loss_2_3_out |-> [num |-> 0, den |-> 1],
     message_logits |-> << >>]

Init ==
    /\ args \in SenderArgs
    /\ pc = "new"
    /\ err = ""
    /\ input = [none |-> TRUE, batch |-> 1]
    /\ calls = 0
    /\ batch_size = 0
    /\ i = 0
    /\ output = << >>
    /\ seq_lengths = << >>
    /\ embeds = << >>
    /\ sentence_probability = << >>
    /\ losses_2_3 = << >>
    /\ entropy = << >>
    /\ message_logits = << >>
    /\ net = << >>
    /\ result = NoResult
    /\ observed = NoResult
    /\ prev = NoResult

\* __init__ fails on the size assertion
ConstructAssertFails ==
    /\ pc = "new"
    /\ args.vocab_size # ExpectedVocabSize(args)
    /\ pc' = "raised"
    /\ err' = "AssertionError"
    /\ UNCHANGED <<args, input, calls, locals, net, result, observed, prev>>

\* __init__ fails on the cell type (lines 69-74)
ConstructCellFails ==
    /\ pc = "new"
    /\ args.vocab_size = ExpectedVocabSize(args)
    /\ args.cell_type # "lstm"
    /\ pc' = "raised"
    /\ err' = "ValueError"
    /\ UNCHANGED <<args, input, calls, locals, net, result, observed, prev>>

Construct ==
    /\ pc = "new"
    /\ args.vocab_size = ExpectedVocabSize(args)
    /\ args.cell_type = "lstm"
    /\ pc' = "ready"
    /\ UNCHANGED <<err, args, input, calls, locals, net, result, observed, prev>>


\* ---- abstract numerics ----

\* (lines 210, 311) every mode but VQ with continuous communication has a symbolic eos
TracksLength(a) == ~(a.vqvae /\ ~a.discrete_communication /\ ~a.rl)

\* number of categories the step chooses among: linear_out has vocab_size outputs
\* (lines 80-83), under vqvae the choice is among the rows of self.e (lines 98-104)
NumCategories(a) == IF a.vqvae THEN a.discrete_latent_number ELSE a.vocab_size

\* what the network can produce for one element at one step.  A softmax over one
\* category is the point mass; vq.apply takes no distribution, only the nearest row.
\* Otherwise it is a point mass or the uniform distribution, whose arg-max is the
\* first category.
Dists(a) ==
    { d \in [top : 0..(NumCategories(a) - 1), sharp : BOOLEAN] :
        /\ (NumCategories(a) = 1 \/ ~TracksLength(a)) => d.sharp
        /\ ~d.sharp => d.top = 0 }

\* categories with non-zero probability
Support(a, d) == IF d.sharp THEN {d.top} ELSE 0..(NumCategories(a) - 1)

\* probability of category v, in units of 1/n (n categories)
P(a, d, v) ==
    IF d.sharp THEN (IF v = d.top THEN NumCategories(a) ELSE 0)
    ELSE 1

\* Categorical(logits).entropy() and .log_prob(v), in a fixed unit
Entropy(d) == IF d.sharp THEN 0 ELSE 1
LogProb(d, v) == IF d.sharp THEN 0 ELSE 0 - 1

\* squared distance of pre_quant to row v of self.e, in a fixed unit: the softmin is
\* a point mass when one row is much nearer than the others
SqDist(d, v) == IF d.sharp THEN 1 ELSE 2

\* a cell of a buffer: as allocated by torch.empty, or assigned since
Uninit == [set |-> FALSE, val |-> 0]
Written(x) == [set |-> TRUE, val |-> x]
\* reading a cell of a block whose unassigned memory holds g
Read(cell, g) == IF cell.set THEN cell.val ELSE g

RECURSIVE SumSeq(_)
SumSeq(s) == IF s = << >> THEN 0 ELSE s[1] + SumSeq(Tail(s))

\* to_one_hot(index, n_dims): exactly 1.0 at index
to_one_hot(v) == [idx |-> v, exact |-> TRUE]

\* utils_helper.calculate_gumbel_softmax(p, tau, hard=True): a sample of the relaxed
\* categorical, hardened by the straight-through sum, whose maximum need not be the
\* float 1.0
calculate_gumbel_softmax(a, d) ==
    { [idx |-> v, exact |-> e] : v \in Support(a, d), e \in BOOLEAN }

\* ---- Sender._calculate_seq_len (lines 161-181) ----

\* lines 172-175: arg-max is the eos id and the maximum is exactly 1.0
\* (faulty variant of ExactlyEos: the maximum is not compared with 1.0)
ExactlyEosMutant(a, tok) == tok.idx = eos_id(a)
ExactlyEos(a, tok) == tok.idx = eos_id(a) /\ tok.exact

\* line 177  (faulty variant first: the mask is not restricted to open elements)
StillOpenMutant(len, initial_length) == TRUE
StillOpen(len, initial_length) == len = initial_length

\* line 179  (faulty variant first: the start token is not counted)
NewLengthMutant(seq_pos) == seq_pos
NewLength(seq_pos) == seq_pos + 1

_calculate_seq_len(a, lens, token, initial_length, seq_pos) ==
    [b \in DOMAIN lens |->
        IF ExactlyEos(a, token[b]) /\ StillOpen(lens[b], initial_length)
        THEN NewLength(seq_pos)
        ELSE lens[b]]

\* ---- Sender.calculate_token_gumbel_softmax (lines 183-197): the token ----
\* (lines 195-196 restore the batch dimension of a batch of one; the token batch is
\* [batch_size, vocab_size] either way)
calculate_token_gumbel_softmax(a, d) ==
    IF a.training THEN calculate_gumbel_softmax(a, d)
    ELSE IF a.greedy THEN {to_one_hot(d.top)}
    ELSE {to_one_hot(v) : v \in Support(a, d)}

\* lines 187, 270-272: sentence_probability += p, on the baseline path in evaluation
AccumulatesProbability(a) == ~a.rl /\ ~a.vqvae /\ ~a.training

\* ---- Sender.forward ----

\* lines 266-309: the tokens the step can produce for one element
NextTokens(a, d) ==
    IF ~a.rl
    THEN IF ~a.vqvae
         THEN calculate_token_gumbel_softmax(a, d)
         ELSE IF ~a.discrete_communication
              THEN {[idx |-> d.top, exact |-> FALSE]}              \* vq.apply: row d.top of self.e
              ELSE IF ~a.gumbel_softmax
                   THEN {to_one_hot(d.top)}                         \* hard_max.apply
                   ELSE calculate_token_gumbel_softmax(a, d)
    ELSE IF a.training
         THEN {to_one_hot(v) : v \in Support(a, d)}                 \* distr.sample()
         ELSE {to_one_hot(d.top)}                                   \* all_logits.argmax

\* lines 185, 192, 303: the step draws a sample
Samples(a) ==
    IF a.rl THEN a.training
    ELSE IF a.vqvae /\ (~a.discrete_communication \/ ~a.gumbel_softmax) THEN FALSE
    ELSE a.training \/ ~a.greedy

\* line 317  (faulty variant first: the loss block is not guarded)
ComputesVQLossMutant(a) == TRUE
ComputesVQLoss(a) == a.vqvae

\* lines 318-326: loss_2 + beta * loss_3, in units of 1/(BetaDen * batch_size)
loss_2_3(d, tok) ==
    LET sq == SumSeq([b \in DOMAIN tok |-> SqDist(d[b], tok[b].idx)])
    IN  BetaDen * sq + BetaNum * sq

\* line 251: range(self.output_len) is exhausted
\* (faulty variant first: the loop also ends once every element is closed)
LoopDoneMutant(a, n, lens) == n = a.output_len \/ (n > 0 /\ \A b \in DOMAIN lens : lens[b] < a.output_len + 1)
LoopDone(a, n, lens) == n = a.output_len

\* lines 210-229: output[0]
InitialToken(a) ==
    IF TracksLength(a) THEN [idx |-> a.sos_id, exact |-> TRUE]
    ELSE [idx |-> 0, exact |-> FALSE]

\* lines 206-244, for the argument h
ForwardBody(h) ==
    IF h.none /\ InputModuleIsLinear(args)
    THEN \* nn.Linear applied to None
         /\ pc' = "raised"
         /\ err' = "TypeError"
         /\ input' = h
         /\ calls' = calls + 1
         /\ UNCHANGED <<args, locals, net, result, observed>>
    ELSE LET B == h.batch
             L == args.output_len
         IN  /\ pc' = "loop"
             /\ input' = h
             /\ calls' = calls + 1
             /\ batch_size' = B
             /\ i' = 0
             /\ output' = << [b \in 1..B |-> InitialToken(args)] >>
             /\ seq_lengths' = [b \in 1..B |-> L + 1]
             /\ embeds' = << >>
             /\ sentence_probability' =
                    [b \in 1..B |-> [v \in 0..(args.vocab_size - 1) |-> 0]]
             /\ losses_2_3' = [k \in 1..L |-> Uninit]
             /\ entropy' = [b \in 1..B |-> [k \in 1..L |-> Uninit]]
             /\ message_logits' = [b \in 1..B |-> [k \in 1..L |-> Uninit]]
             /\ UNCHANGED <<err, args, net, result, observed>>

Forward ==
    /\ pc = "ready"
    /\ \E h \in HiddenStates : ForwardBody(h)
    /\ UNCHANGED prev

\* the same call again, on the same input
ForwardAgain ==
    /\ pc = "inspected"
    /\ calls < MaxCalls
    /\ ForwardBody(input)
    /\ prev' = observed

\* one iteration of the loop (lines 251-330)
Step ==
    /\ pc = "loop"
    /\ ~LoopDone(args, i, seq_lengths)
    /\ \E d \in [1..batch_size -> Dists(args)] :
         \* the network is a function of the input and of the tokens fed back so far
         /\ (calls > 1 /\ ~Samples(args)) => d = net[i + 1]
         /\ \E tok \in [1..batch_size -> [idx : 0..(NumCategories(args) - 1), exact : BOOLEAN]] :
              /\ \A b \in 1..batch_size : tok[b] \in NextTokens(args, d[b])
              /\ embeds' = Append(embeds, output[Len(output)])
              /\ sentence_probability' =
                    IF AccumulatesProbability(args)
                    THEN [b \in 1..batch_size |->
                            [v \in 0..(args.vocab_size - 1) |->
                                sentence_probability[b][v] + P(args, d[b], v)]]
                    ELSE sentence_probability
              /\ entropy' =
                    IF args.rl
                    THEN [b \in 1..batch_size |->
                            [entropy[b] EXCEPT ![i + 1] = Written(Entropy(d[b]))]]
                    ELSE entropy
              /\ message_logits' =
                    IF args.rl
                    THEN [b \in 1..batch_size |->
                            [message_logits[b] EXCEPT ![i + 1] = Written(LogProb(d[b], tok[b].idx))]]
                    ELSE message_logits
              /\ seq_lengths' =
                    IF TracksLength(args)
                    THEN _calculate_seq_len(args, seq_lengths, tok, args.output_len + 1, i + 1)
                    ELSE seq_lengths
              /\ losses_2_3' =
                    IF ComputesVQLoss(args)
                    THEN [losses_2_3 EXCEPT ![i + 1] = Written(loss_2_3(d, tok))]
                    ELSE losses_2_3
              /\ output' = Append(output, tok)
              /\ net' = IF calls = 1 /\ ~Samples(args) THEN Append(net, d) ELSE net
    /\ i' = i + 1
    /\ UNCHANGED <<pc, err, args, input, calls, batch_size, result, observed, prev>>

\* lines 332-343
Return ==
    /\ pc = "loop"
    /\ LoopDone(args, i, seq_lengths)
    /\ pc' = "returned"
    /\ \E gl \in MemVals :
         result' =
           [messages |-> output,
            seq_lengths |-> seq_lengths,
            entropy |-> entropy,
            embeds |-> embeds,
            sentence_probability |-> sentence_probability,
            \* torch.mean(losses_2_3) reads the buffer
            loss_2_3_out |->
                [num |-> SumSeq([k \in DOMAIN losses_2_3 |-> Read(losses_2_3[k], gl)]),
                 den |-> BetaDen * batch_size * Len(losses_2_3)],
            message_logits |-> message_logits]
    /\ UNCHANGED <<err, args, input, calls, locals, net, observed, prev>>

\* the caller reads the values of the returned tensors
Inspect ==
    /\ pc = "returned"
    /\ pc' = "inspected"
    /\ \E ge \in MemVals, gm \in MemVals :
         observed' =
           [result EXCEPT
              !.entropy = [b \in DOMAIN result.entropy |->
                  [k \in DOMAIN result.entropy[b] |-> Read(result.entropy[b][k], ge)]],
              !.message_logits = [b \in DOMAIN result.message_logits |->
                  [k \in DOMAIN result.message_logits[b] |-> Read(result.message_logits[b][k], gm)]]]
    /\ UNCHANGED <<err, args, input, calls, locals, net, result, prev>>

\* one Sender, constructed and called once
Next ==
    \/ ConstructAssertFails
    \/ ConstructCellFails
    \/ Construct
    \/ Forward
    \/ Step
    \/ Return

Spec == Init /\ [][Next]_vars

\* one Sender under greedy evaluation, called again on the same input
InitRepeat == Init /\ args.greedy /\ ~args.training

NextRepeat == Next \/ Inspect \/ ForwardAgain

SpecRepeat == InitRepeat /\ [][NextRepeat]_vars


\* ---- properties ----

Min(S) == CHOOSE x \in S : \A y \in S : x <= y

\* the one-based steps at which the token emitted for element b is exactly EOS
\* (msgs[1] is the initial representation, msgs[k + 1] the token of step k)
EosSteps(msgs, b) ==
    { k \in 1..(Len(msgs) - 1) :
        msgs[k + 1][b].idx = eos_id(args) /\ msgs[k + 1][b].exact }

InForward == pc \in {"loop", "returned", "inspected"}

\* C1: once the length of an element is below max_steps + 1, no later decoding step
\* changes it, whatever tokens are emitted afterwards (first EOS wins).
LockIn ==
    [][pc = "loop" =>
         \A b \in 1..batch_size :
            seq_lengths[b] < args.output_len + 1 => seq_lengths'[b] = seq_lengths[b]]_vars

\* C1 witness: an element closed at step 1 for which step 2 emitted exactly EOS again
LockInWitness ==
    /\ pc = "loop"
    /\ i >= 2
    /\ \E b \in 1..batch_size :
          /\ {1, 2} \subseteq EosSteps(output, b)
          /\ seq_lengths[b] = 2

Determinism ==
    (pc = "inspected" /\ calls = 2 /\ args.greedy /\ ~args.training) => observed = prev

AbsentInputSucceeds ==
    (calls >= 1 /\ input.none) => (pc # "raised" /\ batch_size = 1)

\* C6: construction raises the configuration error before any decoding exactly when
\* vocab_size differs from the codeword dimension in continuous VQ mode (VQ on, RL
\* off, discrete communication off) or from the number of codewords in any other
\* mode; decoding never raises it.
ConfigurationValidation ==
    LET continuous == args.vqvae /\ ~args.rl /\ ~args.discrete_communication
        mismatch == IF continuous
                    THEN args.vocab_size # args.discrete_latent_dimension
                    ELSE args.vocab_size # args.discrete_latent_number
    IN  /\ (pc # "new" /\ mismatch) => (pc = "raised" /\ err = "AssertionError")
        /\ err = "AssertionError" => (mismatch /\ calls = 0 /\ output = << >>)

\* C6 witness: continuous VQ mode rejected although vocab_size is the number of codewords
ConfigurationValidationWitness ==
    /\ err = "AssertionError"
    /\ args.vqvae /\ ~args.rl /\ ~args.discrete_communication
    /\ args.vocab_size = args.discrete_latent_number

\* C7: without vector quantization the returned averaged VQ loss is exactly zero.
InactiveVQLossIsZero ==
    (pc = "returned" /\ ~args.vqvae) => result.loss_2_3_out.num = 0

\* C8: every returned entropy and log-probability entry was assigned by the decode,
\* and outside the RL variant all of them are zero.
AuxiliaryOutputsDeterminate ==
    pc = "returned" =>
        \A b \in 1..batch_size : \A k \in 1..args.output_len :
            /\ result.entropy[b][k].set
            /\ result.message_logits[b][k].set
            /\ ~args.rl => (result.entropy[b][k].val = 0 /\ result.message_logits[b][k].val = 0)

\* C9 as stated: with reinforcement learning on, no cell of the per-step VQ loss
\* accumulator is ever written.
NoVQLossUnderRL ==
    (InForward /\ args.rl) => \A k \in DOMAIN losses_2_3 : ~losses_2_3[k].set

\* C9 as amended: with reinforcement learning on, the accumulator is never written
\* when vector quantization is off, and is written at every completed step when
\* vector quantization is the logit source.
VQLossUnderRL ==
    (InForward /\ args.rl) =>
        \A k \in DOMAIN losses_2_3 : losses_2_3[k].set <=> (args.vqvae /\ k <= i)

\* C9 witness: a finished decode of the RL variant without vector quantization
VQLossUnderRLWitness ==
    /\ pc = "returned"
    /\ args.rl
    /\ ~args.vqvae
    /\ \A k \in DOMAIN losses_2_3 : ~losses_2_3[k].set

\* C10 as stated: in a mode with a symbolic EOS, a final length of max_steps + 1
\* means that no exactly-EOS token was emitted for the element at any step.
FullLengthOnlyWithoutEos ==
    (pc = "returned" /\ TracksLength(args)) =>
        \A b \in 1..batch_size :
            result.seq_lengths[b] = args.output_len + 1 => EosSteps(result.messages, b) = {}

\* C10 as amended: the length starts at max_steps + 1; it changes only at the first
\* exactly-EOS token, only from max_steps + 1 and only to a smaller value, which
\* happens when that token comes before the last step; the length is max_steps + 1
\* exactly when no exactly-EOS token was emitted before the last step.
LoweredOnFirstEos ==
    /\ []((InForward /\ TracksLength(args)) =>
            \A b \in 1..batch_size :
                seq_lengths[b] = args.output_len + 1
                    <=> EosSteps(output, b) \cap 1..(args.output_len - 1) = {})
    /\ [][pc = "loop" =>
            \A b \in 1..batch_size :
                seq_lengths'[b] # seq_lengths[b] =>
                    /\ seq_lengths[b] = args.output_len + 1
                    /\ seq_lengths'[b] < args.output_len + 1
                    /\ EosSteps(output', b) = {i + 1}]_vars

\* C10 witness: the only exactly-EOS token of an element came at the last step
LoweredOnFirstEosWitness ==
    /\ pc = "returned"
    /\ TracksLength(args)
    /\ args.output_len >= 2
    /\ \E b \in 1..batch_size :
          /\ EosSteps(result.messages, b) = {args.output_len}
          /\ result.seq_lengths[b] = args.output_len + 1

====
